---- MODULE Spec2Model ----
(***************************************************************************)
(* Model of auto_cleanup.py: resolve a compartment, run the pre-clean      *)
(* tool, resolve the billable resource types against the search catalog,   *)
(* scan every subscribed region (one broad query, then one query per       *)
(* billable type), and hand the flagged regions to cleanup.py.             *)
(*                                                                         *)
(* Python strings are sequences of one-character strings, so that          *)
(* str.upper, str.lower, sorted and ",".join are computed character by     *)
(* character.                                                              *)
(***************************************************************************)
EXTENDS Integers, Sequences, FiniteSets, Bags, TLC

(***************************************************************************)
(* Characters and strings                                                  *)
(***************************************************************************)
UpperLetters ==
  <<"A", "B", "C", "D", "E", "F", "G", "H", "I", "J", "K", "L", "M",
    "N", "O", "P", "Q", "R", "S", "T", "U", "V", "W", "X", "Y", "Z">>

LowerLetters ==
  <<"a", "b", "c", "d", "e", "f", "g", "h", "i", "j", "k", "l", "m",
    "n", "o", "p", "q", "r", "s", "t", "u", "v", "w", "x", "y", "z">>

Digits ==
  <<"0", "1", "2", "3", "4", "5", "6", "7", "8", "9">>

Range(s) ==
  {s[i] : i \in DOMAIN s}

Chars ==
  Range(UpperLetters) \cup Range(LowerLetters) \cup Range(Digits) \cup {",", "-", " "}

IndexIn(s, c) ==
  CHOOSE i \in DOMAIN s : s[i] = c

\* The code point of a character (ASCII).
ord ==
  [c \in Chars |->
     IF c \in Range(UpperLetters) THEN 64 + IndexIn(UpperLetters, c)
     ELSE IF c \in Range(LowerLetters) THEN 96 + IndexIn(LowerLetters, c)
     ELSE IF c \in Range(Digits) THEN 47 + IndexIn(Digits, c)
     ELSE IF c = "," THEN 44
     ELSE IF c = "-" THEN 45
     ELSE 32]

chr(n) ==
  CHOOSE c \in Chars : ord[c] = n

\* str.upper() and str.lower(), one character at a time.
upper_char ==
  [c \in Chars |-> IF ord[c] \in 97..122 THEN chr(ord[c] - 32) ELSE c]

lower_char ==
  [c \in Chars |-> IF ord[c] \in 65..90 THEN chr(ord[c] + 32) ELSE c]

upper(s) ==
  [i \in 1..Len(s) |-> upper_char[s[i]]]

lower(s) ==
  [i \in 1..Len(s) |-> lower_char[s[i]]]

\* Python's ordering of str: by code point, a proper prefix first.
RECURSIVE str_lt(_, _)
str_lt(a, b) ==
  IF b = <<>> THEN FALSE
  ELSE IF a = <<>> THEN TRUE
  ELSE IF ord[Head(a)] # ord[Head(b)] THEN ord[Head(a)] < ord[Head(b)]
  ELSE str_lt(Tail(a), Tail(b))

\* The members of a set of str listed from the greatest down.
RECURSIVE sorted_descending(_)
sorted_descending(S) ==
  IF S = {} THEN <<>>
  ELSE LET m == CHOOSE x \in S : \A y \in S \ {x} : str_lt(y, x)
       IN  <<m>> \o sorted_descending(S \ {m})

\* sorted(set of str): ascending list of the members.
RECURSIVE sorted(_)
sorted(S) ==
  IF S = {} THEN <<>>
  ELSE LET m == CHOOSE x \in S : \A y \in S \ {x} : str_lt(x, y)
       IN  <<m>> \o sorted(S \ {m})

\* sep.join(list of str)
RECURSIVE join(_, _)
join(sep, list) ==
  IF list = <<>> THEN <<>>
  ELSE IF Len(list) = 1 THEN list[1]
  ELSE list[1] \o sep \o join(sep, Tail(list))

None ==
  <<"None">>

strip_chars ==
  {" "}

\* str.strip(): drop leading and trailing whitespace.
RECURSIVE lstrip(_)
lstrip(s) ==
  IF s # <<>> /\ Head(s) \in strip_chars THEN lstrip(Tail(s)) ELSE s

RECURSIVE rstrip(_)
rstrip(s) ==
  IF s # <<>> /\ s[Len(s)] \in strip_chars THEN rstrip(SubSeq(s, 1, Len(s) - 1)) ELSE s

strip(s) ==
  rstrip(lstrip(s))

(***************************************************************************)
(* Program constants                                                       *)
(***************************************************************************)
important_billable_resources ==
  {
    <<"I", "n", "s", "t", "a", "n", "c", "e">>,
    <<"B", "o", "o", "t", "V", "o", "l", "u", "m", "e">>,
    <<"V", "o", "l", "u", "m", "e">>,
    <<"I", "m", "a", "g", "e">>,
    <<"I", "n", "s", "t", "a", "n", "c", "e", "P", "o", "o", "l">>,
    <<"V", "o", "l", "u", "m", "e", "B", "a", "c", "k", "u", "p">>,
    <<"B", "o", "o", "t", "V", "o", "l", "u", "m", "e", "B", "a", "c", "k", "u", "p">>,
    <<"V", "o", "l", "u", "m", "e", "G", "r", "o", "u", "p">>,
    <<"D", "b", "S", "y", "s", "t", "e", "m">>,
    <<"A", "u", "t", "o", "n", "o", "m", "o", "u", "s", "D", "a", "t", "a", "b", "a", "s", "e">>,
    <<"A", "u", "t", "o", "n", "o", "m", "o", "u", "s", "D", "a", "t", "a", "b", "a", "s", "e", "B", "a", "c", "k", "u", "p">>,
    <<"L", "o", "a", "d", "B", "a", "l", "a", "n", "c", "e", "r">>,
    <<"B", "u", "c", "k", "e", "t">>,
    <<"F", "i", "l", "e", "S", "y", "s", "t", "e", "m">>,
    <<"M", "o", "u", "n", "t", "T", "a", "r", "g", "e", "t">>,
    <<"S", "t", "r", "e", "a", "m">>,
    <<"S", "t", "r", "e", "a", "m", "P", "o", "o", "l">>,
    <<"V", "a", "u", "l", "t">>,
    <<"K", "e", "y">>,
    <<"S", "e", "c", "r", "e", "t">>,
    <<"C", "l", "u", "s", "t", "e", "r">>,
    <<"N", "o", "d", "e", "P", "o", "o", "l">>,
    <<"A", "n", "a", "l", "y", "t", "i", "c", "s", "I", "n", "s", "t", "a", "n", "c", "e">>,
    <<"I", "n", "t", "e", "g", "r", "a", "t", "i", "o", "n", "I", "n", "s", "t", "a", "n", "c", "e">>,
    <<"F", "u", "n", "c", "t", "i", "o", "n">>,
    <<"A", "p", "i", "G", "a", "t", "e", "w", "a", "y">>,
    <<"A", "p", "i", "D", "e", "p", "l", "o", "y", "m", "e", "n", "t">>,
    <<"A", "l", "a", "r", "m">>,
    <<"L", "o", "g", "G", "r", "o", "u", "p">>,
    <<"L", "o", "g">>,
    <<"V", "c", "n">>,
    <<"S", "u", "b", "n", "e", "t">>,
    <<"D", "r", "g">>,
    <<"I", "n", "t", "e", "r", "n", "e", "t", "G", "a", "t", "e", "w", "a", "y">>,
    <<"N", "A", "T", "G", "a", "t", "e", "w", "a", "y">>,
    <<"S", "e", "r", "v", "i", "c", "e", "G", "a", "t", "e", "w", "a", "y">>,
    <<"R", "o", "u", "t", "e", "T", "a", "b", "l", "e">>,
    <<"S", "e", "c", "u", "r", "i", "t", "y", "L", "i", "s", "t">>,
    <<"S", "e", "r", "v", "i", "c", "e", "C", "o", "n", "n", "e", "c", "t", "o", "r">>,
    <<"B", "a", "s", "t", "i", "o", "n">>
  }

\* limit=25 of both search_resources calls.
Limit ==
  25

TerminalStates ==
  {
    <<"T", "E", "R", "M", "I", "N", "A", "T", "E", "D">>,
    <<"D", "E", "L", "E", "T", "E", "D">>,
    <<"I", "N", "A", "C", "T", "I", "V", "E">>
  }

\* The word that stands for the resource type in the broad query,
\* "query all resources where ...".
All ==
  <<"a", "l", "l">>

(***************************************************************************)
(* LifecycleClassifier                                                     *)
(***************************************************************************)
\* getattr(item, "lifecycle_state", None)
lifecycle_state_of(item) ==
  IF "lifecycle_state" \in DOMAIN item THEN item.lifecycle_state ELSE None

\* The classifier without the upper-casing of the state.
is_active_case_sensitive(item) ==
  LET st == lifecycle_state_of(item)
  IN  IF st = None \/ st = <<>> THEN TRUE
      ELSE st \notin TerminalStates

is_active(item) ==
  LET st == lifecycle_state_of(item)
  IN  IF st = None \/ st = <<>> THEN TRUE
      ELSE upper(st) \notin TerminalStates

\* [it for it in items if is_active(it)], items being a bag of records.
select_active(items) ==
  [it \in {x \in DOMAIN items : is_active(x)} |-> items[it]]

(***************************************************************************)
(* TypeCatalogResolver                                                     *)
(***************************************************************************)
\* {t.lower(): t for t in supported}: a later entry replaces an earlier one.
supported_lower_of(supported) ==
  [k \in {lower(supported[i]) : i \in DOMAIN supported} |->
     LET last == CHOOSE i \in DOMAIN supported :
                   /\ lower(supported[i]) = k
                   /\ \A j \in DOMAIN supported : lower(supported[j]) = k => j <= i
     IN  supported[last]]

\* The resolution that keeps the curated spelling of a supported type.
RECURSIVE resolve_types_curated_spelling(_, _)
resolve_types_curated_spelling(curated, supported_lower) ==
  IF curated = <<>> THEN <<>>
  ELSE LET rtype == Head(curated)
           rest  == resolve_types_curated_spelling(Tail(curated), supported_lower)
       IN  IF lower(rtype) \in DOMAIN supported_lower
           THEN <<rtype>> \o rest
           ELSE rest

RECURSIVE resolve_types(_, _)
resolve_types(curated, supported_lower) ==
  IF curated = <<>> THEN <<>>
  ELSE LET rtype == Head(curated)
           rest  == resolve_types(Tail(curated), supported_lower)
       IN  IF lower(rtype) \in DOMAIN supported_lower
           THEN <<supported_lower[lower(rtype)]>> \o rest
           ELSE rest

billable_types_of(supported) ==
  resolve_types(sorted(important_billable_resources), supported_lower_of(supported))

(***************************************************************************)
(* Bounds and inputs                                                       *)
(***************************************************************************)
\* Longest list of subscribed regions.
MaxRegions ==
  2

\* Most search queries that raise during one run.
MaxFailures ==
  1

s_LAB01 ==
  <<"L", "A", "B", "-", "0", "1">>

s_OLD02 ==
  <<"O", "L", "D", "-", "0", "2">>

s_ACTIVE ==
  <<"A", "C", "T", "I", "V", "E">>

s_DELETED ==
  <<"D", "E", "L", "E", "T", "E", "D">>

s_Deleted ==
  <<"D", "e", "l", "e", "t", "e", "d">>

s_TERMINATED ==
  <<"T", "E", "R", "M", "I", "N", "A", "T", "E", "D">>

s_AVAILABLE ==
  <<"A", "V", "A", "I", "L", "A", "B", "L", "E">>

\* What the operator may type at the prompt.
TypedNames ==
  {
    s_LAB01,
    <<" ">> \o s_LAB01 \o <<" ">>,
    lower(s_LAB01),
    s_OLD02
  }

\* The tenancy's compartments as list_compartments returns them, the root
\* compartment appended last.
TenancyCompartments ==
  <<
    [name |-> s_LAB01, lifecycle_state |-> s_DELETED, id |-> "ocid1.compartment.lab01.old"],
    [name |-> s_LAB01, lifecycle_state |-> s_ACTIVE, id |-> "ocid1.compartment.lab01"],
    [name |-> s_OLD02, lifecycle_state |-> s_DELETED, id |-> "ocid1.compartment.old02"],
    [name |-> <<"r", "o", "o", "t">>, lifecycle_state |-> s_ACTIVE, id |-> "ocid1.tenancy"]
  >>

t_Bucket ==
  <<"B", "u", "c", "k", "e", "t">>

t_Instance ==
  <<"I", "n", "s", "t", "a", "n", "c", "e">>

t_NatGateway ==
  <<"N", "a", "t", "G", "a", "t", "e", "w", "a", "y">>

t_OrmStack ==
  <<"O", "r", "m", "S", "t", "a", "c", "k">>

t_User ==
  <<"U", "s", "e", "r">>

t_TagNamespace ==
  <<"T", "a", "g", "N", "a", "m", "e", "s", "p", "a", "c", "e">>

\* Answers of list_resource_types: the backend's spelling of its types.
Catalogs ==
  {
    <<t_Instance, t_Bucket, t_OrmStack>>,
    <<t_NatGateway, t_TagNamespace, t_Instance>>,
    <<t_User, t_Bucket>>,
    <<t_TagNamespace, t_User>>
  }

RegionNames ==
  {
    <<"u", "s", "-", "a", "s", "h", "b", "u", "r", "n", "-", "1">>,
    <<"u", "k", "-", "l", "o", "n", "d", "o", "n", "-", "1">>,
    <<"e", "u", "-", "f", "r", "a", "n", "k", "f", "u", "r", "t", "-", "1">>
  }

\* Answers of list_region_subscriptions: distinct regions, in any order.
RegionLists ==
  UNION {{rl \in [1..n -> RegionNames] : \A i, j \in 1..n : rl[i] = rl[j] => i = j}
           : n \in 1..MaxRegions}

Item(rtype, st) ==
  [resource_type |-> rtype, lifecycle_state |-> st]

\* What the compartment may hold in one region when the scan starts.
RegionContents ==
  {
    EmptyBag,
    Item(t_Bucket, None) :> 1,
    Item(t_User, s_ACTIVE) :> 1,
    (Item(t_Instance, s_TERMINATED) :> Limit) @@ (Item(t_OrmStack, s_ACTIVE) :> 1),
    (Item(t_Instance, s_Deleted) :> Limit) @@ (Item(t_NatGateway, s_AVAILABLE) :> 1)
  }

\* Contents whose resource types the backend knows.
ContentsFor(supported) ==
  {b \in RegionContents : \A it \in DOMAIN b : it.resource_type \in Range(supported)}

(***************************************************************************)
(* The search backend                                                      *)
(***************************************************************************)
Min(a, b) ==
  IF a <= b THEN a ELSE b

\* The sub-bags of B that hold exactly k items.
RECURSIVE SubBagsOfSize(_, _)
SubBagsOfSize(B, k) ==
  IF k = 0 THEN {EmptyBag}
  ELSE IF DOMAIN B = {} THEN {}
  ELSE LET x    == CHOOSE y \in DOMAIN B : TRUE
           rest == [y \in DOMAIN B \ {x} |-> B[y]]
       IN  UNION {{IF n = 0 THEN s ELSE (x :> n) @@ s : s \in SubBagsOfSize(rest, k - n)}
                    : n \in 0..Min(B[x], k)}

\* Substrings that mark a type as never billable.
NonBillableKeywords ==
  {<<"c", "o", "m", "p", "a", "r", "t", "m", "e", "n", "t">>,
   <<"t", "a", "g">>,
   <<"p", "o", "l", "i", "c", "y">>,
   <<"g", "r", "o", "u", "p">>,
   <<"u", "s", "e", "r">>,
   <<"t", "e", "n", "a", "n", "c", "y">>}

\* sub in s
Contains(s, sub) ==
  \E i \in 1..(Len(s) - Len(sub) + 1) : SubSeq(s, i, i + Len(sub) - 1) = sub

NonBillable(t) ==
  \E kw \in NonBillableKeywords : Contains(lower(t), kw)

\* The matches of a broad query that leaves out the never-billable types.
Matching_BillableOnly(contents, rtype) ==
  [it \in {x \in DOMAIN contents :
            \/ rtype = All /\ ~NonBillable(x.resource_type)
            \/ x.resource_type = rtype} |-> contents[it]]

\* The resources a structured query "query <rtype> resources where
\* compartmentId = ..." matches in a region.
Matching(contents, rtype) ==
  [it \in {x \in DOMAIN contents : rtype = All \/ x.resource_type = rtype} |-> contents[it]]

\* search_resources(..., limit=25).data.items: one page of the matches.
SearchPages(contents, rtype) ==
  LET m == Matching(contents, rtype)
  IN  SubBagsOfSize(m, Min(Limit, BagCardinality(m)))

(***************************************************************************)
(* State                                                                   *)
(***************************************************************************)
VARIABLES
  pc,                 \* the step of the script that runs next
  typed,              \* the line waiting on standard input
  compartment_name,
  compartment_ocid,   \* <<>> for None, else <<the OCID>>
  supported_resource_types,
  billable_types,
  regions,
  resources,          \* region name -> what the compartment holds there
  ri,                 \* position of the region loop in regions
  ti,                 \* position of the type loop in billable_types
  found_regions,
  reason_by_region,
  billable_hit,
  result,             \* PASS 1: items of the broad query
  active,             \* PASS 1: the active ones among result
  items,              \* PASS 2: items of the last per-type query
  active_items,       \* PASS 2: the active ones among items
  queries,            \* every search_resources call issued, in order
  failures,           \* search queries that raised so far
  preclean_calls,     \* invocations of ociLabMgmt.py
  cleanup_calls,      \* invocations of cleanup.py
  exit_code,          \* <<>> while running, <<status>> once the process ended
  stdout              \* what print() wrote, one record a message

vars ==
  <<pc, typed, compartment_name, compartment_ocid, supported_resource_types,
    billable_types, regions,
    resources, ri, ti, found_regions, reason_by_region, billable_hit, result,
    active, items, active_items, queries, failures, preclean_calls,
    cleanup_calls, exit_code, stdout>>

scan_vars ==
  <<regions, resources, ri, ti, found_regions, reason_by_region, billable_hit,
    result, active, items, active_items, queries, failures>>

setup_vars ==
  <<typed, compartment_name, compartment_ocid, supported_resource_types,
    billable_types>>

NoValue ==
  <<>>

Init ==
  /\ pc = "resolve"
  /\ typed \in TypedNames
  /\ compartment_name = NoValue
  /\ compartment_ocid = NoValue
  /\ supported_resource_types = <<>>
  /\ billable_types = <<>>
  /\ regions = <<>>
  /\ resources = <<>>
  /\ ri = 0
  /\ ti = 0
  /\ found_regions = {}
  /\ reason_by_region = <<>>
  /\ billable_hit = FALSE
  /\ result = EmptyBag
  /\ active = EmptyBag
  /\ items = EmptyBag
  /\ active_items = EmptyBag
  /\ queries = <<>>
  /\ failures = 0
  /\ preclean_calls = <<>>
  /\ cleanup_calls = <<>>
  /\ exit_code = <<>>
  /\ stdout = <<>>

\* The [:10] of the item listings.
Shown ==
  10

\* One printed message: what it says, and the region, the resource type and
\* the number of item lines under it where it has them.
Line(text, region, rtype, shown) ==
  [text |-> text, region |-> region, rtype |-> rtype, shown |-> shown]

Say(text) ==
  Line(text, <<>>, <<>>, 0)

Write(lines) ==
  stdout' = stdout \o lines

\* sys.exit(status), or the interpreter ending the script.
Exit(status) ==
  /\ pc' = "done"
  /\ exit_code' = <<status>>

\* An exception no handler catches: traceback, exit status 1.
Uncaught ==
  Exit(1)

(***************************************************************************)
(* Steps 1-3: compartment name -> OCID                                     *)
(***************************************************************************)
\* The first compartment of the list with that name and state ACTIVE.
find_compartment(compartments, name) ==
  LET hits == {i \in DOMAIN compartments :
                 /\ compartments[i].name = name
                 /\ compartments[i].lifecycle_state = s_ACTIVE}
  IN  IF hits = {} THEN NoValue
      ELSE <<compartments[CHOOSE i \in hits : \A j \in hits : i <= j].id>>

ResolveCompartment ==
  /\ pc = "resolve"
  /\ compartment_name' = strip(typed)
  /\ compartment_ocid' = find_compartment(TenancyCompartments, strip(typed))
  /\ typed' = NoValue
  /\ IF compartment_ocid' = NoValue
     THEN Exit(1) /\ Write(<<Say("compartment not found or not active")>>)
     ELSE /\ pc' = "preclean"
          /\ Write(<<Say("compartment OCID")>>)
          /\ UNCHANGED exit_code
  /\ UNCHANGED <<supported_resource_types, billable_types, scan_vars,
                 preclean_calls, cleanup_calls>>

\* from_file, the client constructors or list_compartments raise.
ResolveRaises ==
  /\ pc = "resolve"
  /\ compartment_name' = strip(typed)
  /\ typed' = NoValue
  /\ Uncaught
  /\ UNCHANGED stdout
  /\ UNCHANGED <<compartment_ocid, supported_resource_types, billable_types,
                 scan_vars,
                 preclean_calls, cleanup_calls>>

(***************************************************************************)
(* Step 4: ociLabMgmt.py                                                   *)
(***************************************************************************)
ExitStatuses ==
  {0, 1}

\* The pre-clean run without check=True: its exit status is not looked at.
PreClean_Unchecked ==
  /\ pc = "preclean"
  /\ \E status \in ExitStatuses :
       preclean_calls' = Append(preclean_calls,
                                [compartment |-> compartment_name, status |-> <<status>>])
  /\ pc' = "list_types"
  /\ Write(<<Say("running ociLabMgmt cleanup")>>)
  /\ UNCHANGED <<setup_vars, scan_vars, cleanup_calls, exit_code>>

PreClean ==
  /\ pc = "preclean"
  /\ \E status \in ExitStatuses :
       /\ preclean_calls' = Append(preclean_calls,
                                   [compartment |-> compartment_name, status |-> <<status>>])
       /\ IF status = 0
          THEN /\ pc' = "list_types"
               /\ Write(<<Say("running ociLabMgmt cleanup")>>)
               /\ UNCHANGED exit_code
          ELSE /\ Exit(1)
               /\ Write(<<Say("running ociLabMgmt cleanup"), Say("ociLabMgmt.py failed")>>)
  /\ UNCHANGED <<setup_vars, scan_vars, cleanup_calls>>

\* subprocess.run cannot start the tool: OSError, which is not caught.
PreCleanCannotStart ==
  /\ pc = "preclean"
  /\ preclean_calls' = Append(preclean_calls,
                              [compartment |-> compartment_name, status |-> <<>>])
  /\ Uncaught
  /\ Write(<<Say("running ociLabMgmt cleanup")>>)
  /\ UNCHANGED <<setup_vars, scan_vars, cleanup_calls>>

(***************************************************************************)
(* Step 5: billable types                                                  *)
(***************************************************************************)
ListResourceTypes ==
  /\ pc = "list_types"
  /\ \E supported \in Catalogs :
       /\ supported_resource_types' = supported
       /\ billable_types' = billable_types_of(supported)
  /\ pc' = "list_regions"
  /\ UNCHANGED stdout
  /\ UNCHANGED <<typed, compartment_name, compartment_ocid, scan_vars,
                 preclean_calls, cleanup_calls, exit_code>>

\* list_resource_types raises and the run goes on with an empty catalog.
ListResourceTypesFails_BestEffort ==
  /\ pc = "list_types"
  /\ pc' = "list_regions"
  /\ Write(<<Say("failed to fetch supported resource types")>>)
  /\ UNCHANGED <<setup_vars, scan_vars, preclean_calls, cleanup_calls, exit_code>>

\* list_resource_types raises: reported, sys.exit(1).
ListResourceTypesFails ==
  /\ pc = "list_types"
  /\ Exit(1)
  /\ Write(<<Say("failed to fetch supported resource types")>>)
  /\ UNCHANGED <<setup_vars, scan_vars, preclean_calls, cleanup_calls>>

(***************************************************************************)
(* Step 6: region scan                                                     *)
(***************************************************************************)
ListRegions ==
  /\ pc = "list_regions"
  /\ \E rl \in RegionLists :
       /\ regions' = rl
       /\ resources' \in [Range(rl) -> ContentsFor(supported_resource_types)]
  /\ found_regions' = {}
  /\ reason_by_region' = <<>>
  /\ ri' = 1
  /\ pc' = "pass1"
  /\ Write(<<Say("checking regions")>>)
  /\ UNCHANGED <<setup_vars, ti, billable_hit, result, active, items, active_items,
                 queries, failures, preclean_calls, cleanup_calls, exit_code>>

\* list_region_subscriptions raises: nothing catches it.
ListRegionsRaises ==
  /\ pc = "list_regions"
  /\ Uncaught
  /\ UNCHANGED stdout
  /\ UNCHANGED <<setup_vars, scan_vars, preclean_calls, cleanup_calls>>

region_name ==
  regions[ri]

Query(region, rtype, outcome, returned, act, warned) ==
  [region |-> region, rtype |-> rtype, outcome |-> outcome,
   returned |-> BagCardinality(returned), active |-> BagCardinality(act),
   warned |-> warned]

\* The for loop over regions moves on: the next region, or step 7.
NextRegion ==
  /\ ri' = ri + 1
  /\ pc' = IF ri < Len(regions) THEN "pass1" ELSE "summary"

\* The finding recorded under the per-type reason whatever the pass.
Flag_AsBillable(region, reason) ==
  /\ found_regions' = found_regions \cup {region}
  /\ reason_by_region' = (region :> "billable") @@ reason_by_region

\* The finding recorded in place of the earlier ones.
Flag_Replaces(region, reason) ==
  /\ found_regions' = {region}
  /\ reason_by_region' = (region :> reason)

\* found_regions.add(region); reason_by_region[region] = reason
Flag(region, reason) ==
  /\ found_regions' = found_regions \cup {region}
  /\ reason_by_region' = (region :> reason) @@ reason_by_region

\* Falling out of PASS 1 into PASS 2: billable_hit = False, first type.
EnterPass2 ==
  /\ billable_hit' = FALSE
  /\ ti' = 1
  /\ pc' = "pass2"
  /\ UNCHANGED <<ri, found_regions, reason_by_region>>

\* PASS 1 without its "continue": a finding is recorded and the per-type
\* pass runs all the same.
Pass1Search_NoContinue ==
  /\ pc = "pass1"
  /\ \E page \in SearchPages(resources[region_name], All) :
       /\ result' = page
       /\ active' = select_active(page)
       /\ queries' = Append(queries,
                            Query(region_name, All, "ok", page, select_active(page), FALSE))
       /\ IF select_active(page) # EmptyBag
          THEN /\ Write(<<Line("found searchable resources", region_name, <<>>,
                               Min(Shown, BagCardinality(select_active(page))))>>)
               /\ Flag(region_name, "searchable")
          ELSE /\ Write(<<Line("searchable query returned only terminal/empty results",
                               region_name, <<>>, 0)>>)
               /\ UNCHANGED <<found_regions, reason_by_region>>
  /\ billable_hit' = FALSE
  /\ ti' = 1
  /\ pc' = "pass2"
  /\ UNCHANGED <<setup_vars, regions, resources, ri, items, active_items, failures,
                 preclean_calls, cleanup_calls, exit_code>>

\* PASS 1 that reports a finding but does not record it.
Pass1Search_HitNotRecorded ==
  /\ pc = "pass1"
  /\ \E page \in SearchPages(resources[region_name], All) :
       /\ result' = page
       /\ active' = select_active(page)
       /\ queries' = Append(queries,
                            Query(region_name, All, "ok", page, select_active(page), FALSE))
       /\ IF select_active(page) # EmptyBag
          THEN /\ Write(<<Line("found searchable resources", region_name, <<>>,
                               Min(Shown, BagCardinality(select_active(page))))>>)
               /\ NextRegion
               /\ UNCHANGED <<ti, billable_hit, found_regions, reason_by_region>>
          ELSE /\ Write(<<Line("searchable query returned only terminal/empty results",
                               region_name, <<>>, 0)>>)
               /\ EnterPass2
  /\ UNCHANGED <<setup_vars, regions, resources, items, active_items, failures,
                 preclean_calls, cleanup_calls, exit_code>>

\* PASS 1, the broad query answers.
Pass1Search ==
  /\ pc = "pass1"
  /\ \E page \in SearchPages(resources[region_name], All) :
       /\ result' = page
       /\ active' = select_active(page)
       /\ queries' = Append(queries,
                            Query(region_name, All, "ok", page, select_active(page), FALSE))
       /\ IF select_active(page) # EmptyBag
          THEN /\ Write(<<Line("found searchable resources", region_name, <<>>,
                               Min(Shown, BagCardinality(select_active(page))))>>)
               /\ Flag(region_name, "searchable")
               /\ NextRegion
               /\ UNCHANGED <<ti, billable_hit>>
          ELSE /\ Write(<<Line("searchable query returned only terminal/empty results",
                               region_name, <<>>, 0)>>)
               /\ EnterPass2
  /\ UNCHANGED <<setup_vars, regions, resources, items, active_items, failures,
                 preclean_calls, cleanup_calls, exit_code>>

\* PASS 1, the broad query raises ServiceError or any other Exception:
\* both handlers print a warning and fall through to PASS 2.
Pass1SearchFails ==
  /\ pc = "pass1"
  /\ failures < MaxFailures
  /\ failures' = failures + 1
  /\ \E error \in {"ServiceError", "Exception"} :
       /\ queries' = Append(queries,
                            Query(region_name, All, error, EmptyBag, EmptyBag, TRUE))
       /\ Write(<<Line(IF error = "ServiceError" THEN "search error"
                                                 ELSE "unexpected search error",
                       region_name, <<>>, 0)>>)
  /\ EnterPass2
  /\ UNCHANGED <<setup_vars, regions, resources, result, active, items, active_items,
                 preclean_calls, cleanup_calls, exit_code>>

rtype ==
  billable_types[ti]

\* PASS 2 with a break after the first type that has an active item.
Pass2Search_BreakOnHit ==
  /\ pc = "pass2"
  /\ ti <= Len(billable_types)
  /\ \E page \in SearchPages(resources[region_name], rtype) :
       /\ items' = page
       /\ active_items' = select_active(page)
       /\ queries' = Append(queries,
                            Query(region_name, rtype, "ok", page, select_active(page), FALSE))
       /\ billable_hit' = (billable_hit \/ select_active(page) # EmptyBag)
       /\ IF select_active(page) # EmptyBag
          THEN Write((IF billable_hit THEN <<>>
                      ELSE <<Line("found billable resources", region_name, <<>>, 0)>>)
                     \o <<Line("items", region_name, rtype,
                               Min(Shown, BagCardinality(select_active(page))))>>)
          ELSE UNCHANGED stdout
       /\ ti' = IF select_active(page) # EmptyBag THEN Len(billable_types) + 1 ELSE ti + 1
  /\ UNCHANGED <<pc, setup_vars, regions, resources, ri, found_regions,
                 reason_by_region, result, active, failures, preclean_calls,
                 cleanup_calls, exit_code>>

\* PASS 2, one per-type query answers; the loop goes on to the next type.
Pass2Search ==
  /\ pc = "pass2"
  /\ ti <= Len(billable_types)
  /\ \E page \in SearchPages(resources[region_name], rtype) :
       /\ items' = page
       /\ active_items' = select_active(page)
       /\ queries' = Append(queries,
                            Query(region_name, rtype, "ok", page, select_active(page), FALSE))
       /\ billable_hit' = (billable_hit \/ select_active(page) # EmptyBag)
       /\ IF select_active(page) # EmptyBag
          THEN Write((IF billable_hit THEN <<>>
                      ELSE <<Line("found billable resources", region_name, <<>>, 0)>>)
                     \o <<Line("items", region_name, rtype,
                               Min(Shown, BagCardinality(select_active(page))))>>)
          ELSE UNCHANGED stdout
  /\ ti' = ti + 1
  /\ UNCHANGED <<pc, setup_vars, regions, resources, ri, found_regions,
                 reason_by_region, result, active, failures, preclean_calls,
                 cleanup_calls, exit_code>>

\* PASS 2 with the handlers around the loop: a query that raises ends the
\* region's type loop.
Pass2SearchFails_LeavesLoop ==
  /\ pc = "pass2"
  /\ ti <= Len(billable_types)
  /\ failures < MaxFailures
  /\ failures' = failures + 1
  /\ \E error \in {"ServiceError", "Exception"} :
       /\ queries' = Append(queries,
                            Query(region_name, rtype, error, EmptyBag, EmptyBag,
                                  error = "ServiceError"))
       /\ IF error = "ServiceError"
          THEN Write(<<Line("type search error", region_name, rtype, 0)>>)
          ELSE UNCHANGED stdout
  /\ ti' = Len(billable_types) + 1
  /\ UNCHANGED <<pc, setup_vars, regions, resources, ri, found_regions,
                 reason_by_region, billable_hit, result, active, items,
                 active_items, preclean_calls, cleanup_calls, exit_code>>

\* PASS 2, one per-type query raises: ServiceError prints a warning, any
\* other Exception is passed over; the loop goes on to the next type.
Pass2SearchFails ==
  /\ pc = "pass2"
  /\ ti <= Len(billable_types)
  /\ failures < MaxFailures
  /\ failures' = failures + 1
  /\ \E error \in {"ServiceError", "Exception"} :
       /\ queries' = Append(queries,
                            Query(region_name, rtype, error, EmptyBag, EmptyBag,
                                  error = "ServiceError"))
       /\ IF error = "ServiceError"
          THEN Write(<<Line("type search error", region_name, rtype, 0)>>)
          ELSE UNCHANGED stdout
  /\ ti' = ti + 1
  /\ UNCHANGED <<pc, setup_vars, regions, resources, ri, found_regions,
                 reason_by_region, billable_hit, result, active, items,
                 active_items, preclean_calls, cleanup_calls, exit_code>>

\* After the type loop: the region's verdict.
Verdict ==
  /\ pc = "pass2"
  /\ ti > Len(billable_types)
  /\ IF billable_hit
     THEN /\ Flag(region_name, "billable")
          /\ UNCHANGED stdout
     ELSE /\ Write(<<Line("no resources found", region_name, <<>>, 0)>>)
          /\ UNCHANGED <<found_regions, reason_by_region>>
  /\ NextRegion
  /\ UNCHANGED <<setup_vars, regions, resources, ti, billable_hit, result, active,
                 items, active_items, queries, failures, preclean_calls,
                 cleanup_calls, exit_code>>

(***************************************************************************)
(* Step 7: summary and cleanup.py                                          *)
(***************************************************************************)
\* The empty summary taken for a failure.
SkipCleanup_AsError ==
  /\ pc = "summary"
  /\ found_regions = {}
  /\ Exit(1)
  /\ Write(<<Say("no active regions with resources found, skipping cleanup.py")>>)
  /\ UNCHANGED <<setup_vars, scan_vars, preclean_calls, cleanup_calls>>

SkipCleanup ==
  /\ pc = "summary"
  /\ found_regions = {}
  /\ Exit(0)
  /\ Write(<<Say("no active regions with resources found, skipping cleanup.py")>>)
  /\ UNCHANGED <<setup_vars, scan_vars, preclean_calls, cleanup_calls>>

\* "Region summary:" and one line a flagged region, in sorted order.
summary_lines ==
  LET rs == sorted(found_regions)
  IN  <<Say("region summary")>>
        \o [k \in 1..Len(rs) |->
              Line(reason_by_region[rs[k]], rs[k], <<>>, 0)]

region_list ==
  join(<<",">>, sorted(found_regions))

\* cleanup.py run a second time when its first run exits non-zero.
RunCleanup_Retries ==
  /\ pc = "summary"
  /\ found_regions # {}
  /\ \E status \in ExitStatuses :
       /\ cleanup_calls' = Append(cleanup_calls,
                                  [compartment |-> compartment_name, regions |-> region_list,
                                   status |-> <<status>>])
       /\ Write(summary_lines \o <<Say("running cleanup.py")>>
                  \o (IF status = 0 THEN <<>> ELSE <<Say("cleanup.py failed")>>))
       /\ IF status = 0 \/ cleanup_calls # <<>>
          THEN Exit(0)
          ELSE UNCHANGED <<pc, exit_code>>
  /\ UNCHANGED <<setup_vars, scan_vars, preclean_calls>>

\* cleanup.py runs and exits; a non-zero status is reported and the script
\* then runs off its end.
RunCleanup ==
  /\ pc = "summary"
  /\ found_regions # {}
  /\ \E status \in ExitStatuses :
       /\ cleanup_calls' = Append(cleanup_calls,
                                  [compartment |-> compartment_name, regions |-> region_list,
                                   status |-> <<status>>])
       /\ Write(summary_lines \o <<Say("running cleanup.py")>>
                  \o (IF status = 0 THEN <<>> ELSE <<Say("cleanup.py failed")>>))
  /\ Exit(0)
  /\ UNCHANGED <<setup_vars, scan_vars, preclean_calls>>

\* subprocess.run cannot start cleanup.py: OSError, which is not caught.
CleanupCannotStart ==
  /\ pc = "summary"
  /\ found_regions # {}
  /\ cleanup_calls' = Append(cleanup_calls,
                             [compartment |-> compartment_name, regions |-> region_list,
                              status |-> <<>>])
  /\ Uncaught
  /\ Write(summary_lines \o <<Say("running cleanup.py")>>)
  /\ UNCHANGED <<setup_vars, scan_vars, preclean_calls>>

Next ==
  \/ ResolveRaises
  \/ ResolveCompartment
  \/ PreCleanCannotStart
  \/ PreClean
  \/ ListResourceTypesFails
  \/ ListResourceTypes
  \/ ListRegionsRaises
  \/ ListRegions
  \/ Pass1SearchFails
  \/ Pass1Search
  \/ Verdict
  \/ Pass2SearchFails
  \/ Pass2Search
  \/ SkipCleanup
  \/ CleanupCannotStart
  \/ RunCleanup

Spec ==
  Init /\ [][Next]_vars

\* Every external call returns, so the script always takes its next step.
FairSpec ==
  Spec /\ WF_vars(Next)

TypeOK ==
  /\ pc \in {"resolve", "preclean", "list_types", "list_regions", "pass1", "pass2",
             "summary", "done", "classify", "classified", "resolve_types",
             "resolved_types"}
  /\ found_regions \subseteq Range(regions)
  /\ DOMAIN reason_by_region = found_regions
  /\ failures \in 0..MaxFailures
  /\ ri \in 0..(Len(regions) + 1)

(***************************************************************************)
(* The classifier on its own: one record in, the filtered list out         *)
(***************************************************************************)
\* Every spelling of a word in upper and lower case letters.
RECURSIVE CaseVariants(_)
CaseVariants(w) ==
  IF w = <<>> THEN {<<>>}
  ELSE {<<c>> \o rest : c \in {upper_char[Head(w)], lower_char[Head(w)]},
                        rest \in CaseVariants(Tail(w))}

LifecycleStates ==
  UNION {CaseVariants(w) : w \in {s_DELETED, <<"I", "N", "A", "C", "T", "I", "V", "E">>,
                                  s_ACTIVE, <<"D", "E", "L", "E", "T", "E">>}}
    \cup {s_TERMINATED, lower(s_TERMINATED), s_AVAILABLE,
          <<"T", "e", "r", "m", "i", "n", "a", "t", "e", "d">>,
          <<"T", "E", "R", "M", "I", "N", "A", "T", "I", "N", "G">>,
          <<"D", "E", "L", "E", "T", "I", "N", "G">>,
          s_DELETED \o <<" ">>,
          <<>>, None}

ClassifyItems ==
  {Item(t_Instance, st) : st \in LifecycleStates} \cup {[resource_type |-> t_Bucket]}

ClassifyInit ==
  /\ pc = "classify"
  /\ \E it \in ClassifyItems : result = (it :> 1)
  /\ typed = NoValue
  /\ compartment_name = NoValue
  /\ compartment_ocid = NoValue
  /\ supported_resource_types = <<>>
  /\ billable_types = <<>>
  /\ regions = <<>>
  /\ resources = <<>>
  /\ ri = 0
  /\ ti = 0
  /\ found_regions = {}
  /\ reason_by_region = <<>>
  /\ billable_hit = FALSE
  /\ active = EmptyBag
  /\ items = EmptyBag
  /\ active_items = EmptyBag
  /\ queries = <<>>
  /\ failures = 0
  /\ preclean_calls = <<>>
  /\ cleanup_calls = <<>>
  /\ exit_code = <<>>
  /\ stdout = <<>>

\* active = [it for it in result if is_active(it)]
Classify ==
  /\ pc = "classify"
  /\ active' = select_active(result)
  /\ pc' = "classified"
  /\ UNCHANGED <<setup_vars, regions, resources, ri, ti, found_regions,
                 reason_by_region, billable_hit, result, items, active_items,
                 queries, failures, preclean_calls, cleanup_calls, exit_code,
                 stdout>>

ClassifyNext ==
  Classify

ClassifySpec ==
  ClassifyInit /\ [][ClassifyNext]_vars

(***************************************************************************)
(* The type resolution on its own: one catalog in, billable_types out      *)
(***************************************************************************)
\* Longest catalog handed to the resolution.
MaxCatalog ==
  3

t_Log ==
  <<"L", "o", "g">>

t_LogGroup ==
  <<"L", "o", "g", "G", "r", "o", "u", "p">>

\* Spellings a backend may use for its types.
TypeSpellings ==
  {t_Bucket, lower(t_Bucket), t_Instance, upper(t_Instance), t_NatGateway,
   t_Log, t_LogGroup, t_OrmStack, t_User}

\* Catalogs of at most MaxCatalog types, no two alike but for case.
ResolveCatalogs ==
  UNION {{c \in [1..n -> TypeSpellings] :
            \A i, j \in 1..n : lower(c[i]) = lower(c[j]) => i = j}
           : n \in 0..MaxCatalog}

ResolveInit ==
  /\ pc = "resolve_types"
  /\ supported_resource_types \in ResolveCatalogs
  /\ typed = NoValue
  /\ compartment_name = NoValue
  /\ compartment_ocid = NoValue
  /\ billable_types = <<>>
  /\ regions = <<>>
  /\ resources = <<>>
  /\ ri = 0
  /\ ti = 0
  /\ found_regions = {}
  /\ reason_by_region = <<>>
  /\ billable_hit = FALSE
  /\ result = EmptyBag
  /\ active = EmptyBag
  /\ items = EmptyBag
  /\ active_items = EmptyBag
  /\ queries = <<>>
  /\ failures = 0
  /\ preclean_calls = <<>>
  /\ cleanup_calls = <<>>
  /\ exit_code = <<>>
  /\ stdout = <<>>

\* supported_lower = {...}; billable_types = [...]: nothing is printed.
ResolveTypes ==
  /\ pc = "resolve_types"
  /\ billable_types' = billable_types_of(supported_resource_types)
  /\ pc' = "resolved_types"
  /\ UNCHANGED <<typed, compartment_name, compartment_ocid, supported_resource_types,
                 scan_vars, preclean_calls, cleanup_calls, exit_code, stdout>>

ResolveNext ==
  ResolveTypes

ResolveSpec ==
  ResolveInit /\ [][ResolveNext]_vars

(***************************************************************************)
(* Properties                                                              *)
(***************************************************************************)
\* A state spelled like one of the three terminal words, in any mix of
\* upper and lower case.
SpellsTerminal(st) ==
  \E w \in TerminalStates :
    /\ Len(st) = Len(w)
    /\ \A i \in 1..Len(w) : ord[st[i]] = ord[w[i]] \/ ord[st[i]] = ord[w[i]] + 32

AbsentOrEmpty(it) ==
  \/ "lifecycle_state" \notin DOMAIN it
  \/ it.lifecycle_state = None
  \/ it.lifecycle_state = <<>>

\* C1: is_active keeps a record whose lifecycle state is absent, None or
\* empty, and otherwise keeps it exactly when the state is not TERMINATED,
\* DELETED or INACTIVE in any mix of upper and lower case.
C1_IsActiveIgnoresCase ==
  pc = "classified" =>
    \A it \in DOMAIN result :
      (it \in DOMAIN active) <=> (AbsentOrEmpty(it) \/ ~SpellsTerminal(it.lifecycle_state))

\* A record in state "Deleted" has been classified and dropped.
C1_Witness ==
  /\ pc = "classified"
  /\ Item(t_Instance, s_Deleted) \in DOMAIN result
  /\ active = EmptyBag

(***************************************************************************)
(* Reading the run back from its records                                   *)
(***************************************************************************)
\* The regions whose pass through the loop body is over.
ScannedRegions ==
  {regions[i] : i \in {j \in DOMAIN regions : j < ri}}

ScanComplete ==
  regions # <<>> /\ ri > Len(regions)

QueriesIn(r) ==
  SelectSeq(queries, LAMBDA q : q.region = r)

BroadQueriesIn(r) ==
  SelectSeq(queries, LAMBDA q : q.region = r /\ q.rtype = All)

TypeQueriesIn(r) ==
  SelectSeq(queries, LAMBDA q : q.region = r /\ q.rtype # All)

Hit(q) ==
  q.outcome = "ok" /\ q.active > 0

Failed(q) ==
  q.outcome # "ok"

SomeHit(qs) ==
  \E k \in DOMAIN qs : Hit(qs[k])

SomeFailed(qs) ==
  \E k \in DOMAIN qs : Failed(qs[k])

\* The regions in which some query returned an active item.
RegionsWithHit ==
  {queries[k].region : k \in {j \in DOMAIN queries : Hit(queries[j])}}

HoldsActive(contents) ==
  \E it \in DOMAIN contents : is_active(it)

\* str.split(sep) for a one-character separator.
RECURSIVE split(_, _)
split(s, sep) ==
  IF \A i \in DOMAIN s : s[i] # sep THEN <<s>>
  ELSE LET k == CHOOSE i \in DOMAIN s : s[i] = sep /\ \A j \in 1..(i - 1) : s[j] # sep
       IN  <<SubSeq(s, 1, k - 1)>> \o split(SubSeq(s, k + 1, Len(s)), sep)

\* C2: every scanned region that holds an active resource and in which no
\* query failed is flagged.
C2_Completeness ==
  \A r \in ScannedRegions :
    (HoldsActive(resources[r]) /\ ~SomeFailed(QueriesIn(r))) => r \in found_regions

\* C3: the region argument of every cleanup.py invocation lists exactly the
\* regions in which some query returned an active item, each once, in
\* ascending order, separated by commas.
C3_CleanupRegionArgument ==
  \A c \in DOMAIN cleanup_calls :
    LET names == split(cleanup_calls[c].regions, ",")
    IN  /\ Range(names) = RegionsWithHit
        /\ \A i, j \in DOMAIN names : i < j => str_lt(names[i], names[j])

\* cleanup.py was handed two regions that the subscription list gave in
\* descending order.
C3_Witness ==
  /\ Len(cleanup_calls) = 1
  /\ Len(regions) = 2
  /\ str_lt(regions[2], regions[1])
  /\ found_regions = Range(regions)

\* C4: when the scan is over and no query returned an active item, no region
\* is flagged, cleanup.py is not invoked and the run ends with status 0.
C4_NothingFoundSkipsCleanup ==
  (ScanComplete /\ RegionsWithHit = {}) =>
    /\ found_regions = {}
    /\ cleanup_calls = <<>>
    /\ pc = "done" => exit_code = <<0>>

\* The run is over, every region was scanned, some query returned items
\* and all of them were terminal.
C4_Witness ==
  /\ pc = "done"
  /\ ScanComplete
  /\ RegionsWithHit = {}
  /\ \E k \in DOMAIN queries : queries[k].returned > 0

\* The resource types of a list of queries, in the order issued.
TypesOf(qs) ==
  [k \in 1..Len(qs) |-> qs[k].rtype]

\* The queries issued before the k-th.
Before(k) ==
  SubSeq(queries, 1, k - 1)

TypeQueriesBefore(k) ==
  SelectSeq(Before(k), LAMBDA q : q.region = queries[k].region /\ q.rtype # All)

\* C5 as stated: within a region no per-type query follows a per-type query
\* that returned an active item.
C5_ShortCircuit ==
  \A k \in DOMAIN queries :
    queries[k].rtype # All => ~SomeHit(TypeQueriesBefore(k))

\* C5, amended: a region that enters the per-type pass is queried for every
\* billable type, in order, whether or not an earlier type returned an
\* active item; the first active item latches billable_hit, and the region
\* is flagged "billable" after the last type.
C5_AllTypesQueried ==
  /\ \A r \in ScannedRegions :
       ~SomeHit(BroadQueriesIn(r)) =>
         /\ TypesOf(TypeQueriesIn(r)) = billable_types
         /\ SomeHit(TypeQueriesIn(r)) <=>
              (r \in found_regions /\ reason_by_region[r] = "billable")
  /\ pc = "pass2" =>
       /\ TypesOf(TypeQueriesIn(region_name)) = SubSeq(billable_types, 1, ti - 1)
       /\ billable_hit = SomeHit(TypeQueriesIn(region_name))

\* A scanned region whose first per-type query returned an active item and
\* whose next type was queried nevertheless.
C5_Witness ==
  \E r \in ScannedRegions :
    /\ Len(TypeQueriesIn(r)) >= 2
    /\ Hit(TypeQueriesIn(r)[1])
    /\ r \in found_regions

\* C6 as stated: a broad query is issued in a region only after that
\* region's per-type pass has run through without an active item.
C6_PriorityFirst ==
  \A k \in DOMAIN queries :
    queries[k].rtype = All =>
      /\ TypesOf(TypeQueriesBefore(k)) = billable_types
      /\ ~SomeHit(TypeQueriesBefore(k))

\* C6, amended: in every region the broad query is issued first and once;
\* a per-type query is issued only after the region's broad query, and only
\* if that query returned no active item or raised.
C6_BroadFirst ==
  /\ \A k \in DOMAIN queries :
       queries[k].rtype # All =>
         \E j \in 1..(k - 1) :
           /\ queries[j].region = queries[k].region
           /\ queries[j].rtype = All
           /\ ~Hit(queries[j])
  /\ \A r \in Range(regions) : Len(BroadQueriesIn(r)) <= 1
  /\ \A r \in ScannedRegions : Len(BroadQueriesIn(r)) = 1

\* The scan is over; one region was settled by its broad query alone and
\* another went on to per-type queries.
C6_Witness ==
  /\ ScanComplete
  /\ \E r \in ScannedRegions : SomeHit(BroadQueriesIn(r)) /\ TypeQueriesIn(r) = <<>>
  /\ \E r \in ScannedRegions : TypeQueriesIn(r) # <<>>

curated_lower ==
  {lower(t) : t \in important_billable_resources}

\* A region with active resources, all of them of curated billable types.
OnlyPriorityActive(contents) ==
  /\ HoldsActive(contents)
  /\ \A it \in DOMAIN contents :
       is_active(it) => lower(it.resource_type) \in curated_lower

\* cleanup.py ran once, on exactly the flagged regions.
CleanupGotFlagged ==
  /\ Len(cleanup_calls) = 1
  /\ Range(split(cleanup_calls[1].regions, ",")) = found_regions

\* C7 as stated: with every query answering, a region whose only active
\* resources are of billable types is flagged with the per-type reason,
\* a region without active resources is not flagged, and cleanup.py gets
\* exactly the flagged regions.
C7_PriorityReason ==
  (pc = "done" /\ ScanComplete /\ ~SomeFailed(queries)) =>
    /\ \A r \in Range(regions) :
         /\ OnlyPriorityActive(resources[r]) =>
              (r \in found_regions /\ reason_by_region[r] = "billable")
         /\ ~HoldsActive(resources[r]) => r \notin found_regions
    /\ found_regions # {} => CleanupGotFlagged

\* C7, amended: with every query answering, a region that holds at most 25
\* resources and whose only active resources are of billable types is
\* flagged with reason "searchable", a region without active resources is
\* not flagged, and cleanup.py gets exactly the flagged regions.
C7_SearchableReason ==
  (pc = "done" /\ ScanComplete /\ ~SomeFailed(queries)) =>
    /\ \A r \in Range(regions) :
         /\ (OnlyPriorityActive(resources[r]) /\ BagCardinality(resources[r]) <= Limit) =>
              (r \in found_regions /\ reason_by_region[r] = "searchable")
         /\ ~HoldsActive(resources[r]) => r \notin found_regions
    /\ found_regions # {} => CleanupGotFlagged

r_us_ashburn_1 ==
  <<"u", "s", "-", "a", "s", "h", "b", "u", "r", "n", "-", "1">>

r_uk_london_1 ==
  <<"u", "k", "-", "l", "o", "n", "d", "o", "n", "-", "1">>

\* Compartment LAB-01, regions us-ashburn-1 and uk-london-1, one active
\* Bucket in uk-london-1 only: cleanup.py ran on "uk-london-1".
C7_Witness ==
  /\ pc = "done"
  /\ ~SomeFailed(queries)
  /\ compartment_name = s_LAB01
  /\ regions = <<r_us_ashburn_1, r_uk_london_1>>
  /\ resources[r_us_ashburn_1] = EmptyBag
  /\ resources[r_uk_london_1] = (Item(t_Bucket, None) :> 1)
  /\ Len(cleanup_calls) = 1
  /\ cleanup_calls[1].regions = r_uk_london_1
  /\ reason_by_region[r_uk_london_1] = "searchable"

\* C8: a scanned region whose broad query returned an active item, and none
\* of whose per-type queries did, is flagged with reason "searchable".
C8_FallbackReason ==
  \A r \in ScannedRegions :
    (SomeHit(BroadQueriesIn(r)) /\ ~SomeHit(TypeQueriesIn(r))) =>
      (r \in found_regions /\ reason_by_region[r] = "searchable")

\* A scanned region that holds terminated instances and an active resource
\* of no billable type, found by the broad query.
C8_Witness ==
  \E r \in ScannedRegions :
    /\ SomeHit(BroadQueriesIn(r))
    /\ ~OnlyPriorityActive(resources[r])
    /\ Item(t_Instance, s_TERMINATED) \in DOMAIN resources[r]
    /\ reason_by_region[r] = "searchable"

\* C9: a query that raises costs only its own result: the region's
\* remaining queries are issued, a later active item still flags the
\* region, the later regions are scanned, and the run ends only at step 7.
C9_FailureIsNoResult ==
  /\ \A r \in ScannedRegions :
       SomeFailed(QueriesIn(r)) =>
         /\ Len(BroadQueriesIn(r)) = 1
         /\ ~SomeHit(BroadQueriesIn(r)) => TypesOf(TypeQueriesIn(r)) = billable_types
         /\ SomeHit(QueriesIn(r)) => r \in found_regions
  /\ (SomeFailed(queries) /\ pc = "done") =>
       /\ ScanComplete
       /\ \A r \in Range(regions) : QueriesIn(r) # <<>>
       /\ found_regions = {} => exit_code = <<0>>
       /\ found_regions # {} => Len(cleanup_calls) = 1

\* The run is over; in one region a per-type query raised and a later
\* per-type query returned an active item, and the region is flagged.
C9_Witness ==
  /\ pc = "done"
  /\ \E r \in Range(regions) :
       /\ r \in found_regions
       /\ \E i, j \in DOMAIN TypeQueriesIn(r) :
            i < j /\ Failed(TypeQueriesIn(r)[i]) /\ Hit(TypeQueriesIn(r)[j])

\* C10: a cleanup.py that exits non-zero makes the run end with a non-zero
\* status, and cleanup.py is invoked at most once.
C10_CleanupFailureSurfaces ==
  /\ Len(cleanup_calls) <= 1
  /\ \A c \in DOMAIN cleanup_calls :
       (pc = "done" /\ cleanup_calls[c].status # <<0>>) => exit_code # <<0>>

\* The messages printed about a region.
LinesAbout(r) ==
  SelectSeq(stdout, LAMBDA l : l.region = r)

Says(lines, text) ==
  \E k \in DOMAIN lines : lines[k].text = text

AllFailed(qs) ==
  qs # <<>> /\ \A k \in DOMAIN qs : Failed(qs[k])

\* C11: a scanned region all of whose queries raised is not given the
\* verdict "no resources found".
C11_ErrorVerdict ==
  \A r \in ScannedRegions :
    AllFailed(QueriesIn(r)) => ~Says(LinesAbout(r), "no resources found")

\* The run ended before any region query.
EndedInSetup ==
  /\ pc = "done"
  /\ exit_code # <<0>>
  /\ regions = <<>>
  /\ queries = <<>>
  /\ cleanup_calls = <<>>

\* C12: when the typed name matches no active compartment, or the type
\* catalog cannot be fetched, the run ends at once with a non-zero status,
\* without any region query and without cleanup.py.
C12_SetupFailureAborts ==
  /\ (pc # "resolve" /\ compartment_ocid = NoValue) =>
       (EndedInSetup /\ preclean_calls = <<>>)
  /\ Says(stdout, "failed to fetch supported resource types") =>
       (EndedInSetup /\ supported_resource_types = <<>>)

\* The compartment resolved, the pre-clean tool passed and the catalog call
\* raised: the run is over with status 1.
C12_Witness ==
  /\ compartment_ocid # NoValue
  /\ Len(preclean_calls) = 1
  /\ Says(stdout, "failed to fetch supported resource types")
  /\ pc = "done"
  /\ exit_code = <<1>>

WarningTexts ==
  {"search error", "unexpected search error", "type search error"}

\* C13: every query that raised has a warning printed for it, naming its
\* region and, for a per-type query, its type.
C13_EveryFailureWarned ==
  \A k \in DOMAIN queries :
    Failed(queries[k]) =>
      \E n \in DOMAIN stdout :
        /\ stdout[n].text \in WarningTexts
        /\ stdout[n].region = queries[k].region
        /\ queries[k].rtype # All => stdout[n].rtype = queries[k].rtype

\* Two names alike but for the case of their letters.
SameIgnoringCase(a, b) ==
  /\ Len(a) = Len(b)
  /\ \A i \in 1..Len(a) :
       \/ a[i] = b[i]
       \/ ord[a[i]] \in 65..90 /\ ord[b[i]] = ord[a[i]] + 32
       \/ ord[b[i]] \in 65..90 /\ ord[a[i]] = ord[b[i]] + 32

\* The curated types the catalog has under some spelling, and those it lacks.
CuratedIn(supported) ==
  {c \in important_billable_resources :
     \E i \in DOMAIN supported : SameIgnoringCase(c, supported[i])}

CuratedOf(t) ==
  CHOOSE c \in important_billable_resources : SameIgnoringCase(c, t)

\* billable_types holds, once each and in the order of the curated names,
\* the backend's spelling of every curated type the catalog has, and
\* nothing else.
ExactlyTheSupportedCurated ==
  /\ Range(billable_types) =
       {supported_resource_types[i] : i \in {k \in DOMAIN supported_resource_types :
          \E c \in important_billable_resources :
            SameIgnoringCase(c, supported_resource_types[k])}}
  /\ Len(billable_types) = Cardinality(CuratedIn(supported_resource_types))
  /\ \A i, j \in DOMAIN billable_types :
       i < j => str_lt(CuratedOf(billable_types[i]), CuratedOf(billable_types[j]))

Unsupported ==
  important_billable_resources \ CuratedIn(supported_resource_types)

\* C14 as stated: the resolved list is exactly the backend's spelling of the
\* curated types the catalog has; every other curated type is left out, is
\* reported as skipped, and raises no error.
C14_SkippedReported ==
  pc = "resolved_types" =>
    /\ ExactlyTheSupportedCurated
    /\ exit_code = <<>>
    /\ \A c \in Unsupported :
         \E n \in DOMAIN stdout : SameIgnoringCase(stdout[n].rtype, c)

\* C14, amended: the resolved list is exactly the backend's spelling of the
\* curated types the catalog has; every other curated type is left out
\* silently (nothing is printed about it) and raises no error.
C14_SilentResolution ==
  pc = "resolved_types" =>
    /\ ExactlyTheSupportedCurated
    /\ exit_code = <<>>
    /\ stdout = <<>>

\* A catalog that spells NATGateway its own way and has a type that is not
\* curated: the list holds the backend's NatGateway.
C14_Witness ==
  /\ pc = "resolved_types"
  /\ supported_resource_types = <<t_OrmStack, t_NatGateway, lower(t_Bucket)>>
  /\ billable_types = <<lower(t_Bucket), t_NatGateway>>

\* The query issued last is a broad one that returned: result is its page.
LastBroadOk ==
  /\ queries # <<>>
  /\ queries[Len(queries)].rtype = All
  /\ queries[Len(queries)].outcome = "ok"

\* C15 as stated: the broad pass never looks at an item of a type whose
\* lower-cased name includes a non-billable keyword, and no region is
\* flagged "searchable" on the basis of such an item alone.
C15_FallbackSkipsNonBillable ==
  /\ LastBroadOk => \A it \in DOMAIN result : ~NonBillable(it.resource_type)
  /\ \A r \in DOMAIN reason_by_region :
       reason_by_region[r] = "searchable" =>
         \E it \in DOMAIN resources[r] :
           is_active(it) /\ ~NonBillable(it.resource_type)

\* C15, amended: the broad query filters on no type: its page is drawn from
\* everything the region holds, whatever the type, and the region is flagged
\* "searchable" exactly when the page holds an item that is not terminal.
C15_BroadUnfiltered ==
  LastBroadOk =>
    LET r == queries[Len(queries)].region
    IN  /\ result \sqsubseteq resources[r]
        /\ BagCardinality(result) = Min(Limit, BagCardinality(resources[r]))
        /\ (r \in found_regions /\ reason_by_region[r] = "searchable")
             <=> \E it \in DOMAIN result : ~SpellsTerminal(lifecycle_state_of(it))

\* A scanned region whose only resource is an active User, flagged
\* "searchable".
C15_Witness ==
  \E r \in ScannedRegions :
    /\ resources[r] = Item(t_User, s_ACTIVE) :> 1
    /\ r \in found_regions
    /\ reason_by_region[r] = "searchable"
    /\ LastBroadOk
    /\ queries[Len(queries)].region = r

\* C16: ociLabMgmt.py has run, and exited 0, before any region is queried;
\* if it did not exit 0 the run has ended with a non-zero status without a
\* query and without cleanup.py; cleanup.py is called only once every
\* subscribed region has been scanned.
C16_PipelineOrder ==
  /\ queries # <<>> =>
       (Len(preclean_calls) = 1 /\ preclean_calls[1].status = <<0>>)
  /\ \A k \in DOMAIN preclean_calls :
       preclean_calls[k].status # <<0>> =>
         /\ pc = "done"
         /\ exit_code \notin {<<>>, <<0>>}
         /\ queries = <<>>
         /\ cleanup_calls = <<>>
  /\ cleanup_calls # <<>> =>
       /\ ScanComplete
       /\ \A r \in Range(regions) : QueriesIn(r) # <<>>

\* ociLabMgmt.py exited 1: the run is over with status 1.
C16_Witness ==
  /\ Len(preclean_calls) = 1
  /\ preclean_calls[1].status = <<1>>
  /\ Says(stdout, "ociLabMgmt.py failed")
  /\ pc = "done"
  /\ exit_code = <<1>>

\* C17: a region whose broad query returned an active item has had that
\* one query and no other and is flagged "searchable"; the per-type pass is
\* entered, and per-type queries are issued, only in a region whose broad
\* query returned nothing active or raised.
C17_EarlyExit ==
  /\ \A r \in Range(regions) :
       SomeHit(BroadQueriesIn(r)) =>
         /\ Len(QueriesIn(r)) = 1
         /\ r \in found_regions
         /\ reason_by_region[r] = "searchable"
         /\ r \in ScannedRegions
  /\ \A r \in Range(regions) :
       (TypeQueriesIn(r) # <<>> \/ (pc = "pass2" /\ r = region_name)) =>
         /\ Len(BroadQueriesIn(r)) = 1
         /\ LET b == BroadQueriesIn(r)[1]
            IN  Failed(b) \/ b.active = 0

\* The catalog has billable types, and a scanned region was settled by its
\* broad query: one query, reason "searchable".
C17_Witness ==
  /\ billable_types # <<>>
  /\ \E r \in ScannedRegions :
       /\ Len(QueriesIn(r)) = 1
       /\ Hit(QueriesIn(r)[1])
       /\ QueriesIn(r)[1].rtype = All
       /\ reason_by_region[r] = "searchable"
  /\ \E r \in ScannedRegions :
       /\ TypeQueriesIn(r) # <<>>
       /\ Failed(BroadQueriesIn(r)[1])

\* The two records of the findings agree, and a "billable" finding is one
\* the broad query did not make.
FindingsConsistent ==
  /\ DOMAIN reason_by_region = found_regions
  /\ \A r \in found_regions : reason_by_region[r] \in {"searchable", "billable"}
  /\ \A r \in found_regions :
       reason_by_region[r] = "billable" => ~SomeHit(BroadQueriesIn(r))

\* A step takes no region out of found_regions, and puts in none but the
\* region whose scan it belongs to.
FindingsOnlyGrow ==
  /\ found_regions \subseteq found_regions'
  /\ found_regions' # found_regions =>
       /\ pc \in {"pass1", "pass2"}
       /\ found_regions' \ found_regions = {regions[ri]}

\* C18: at every moment the keys of reason_by_region are the members of
\* found_regions and every reason is "searchable" or "billable"; a region
\* with reason "billable" had no active item in its broad query; regions are
\* only added, never removed, and only the region being scanned is added.
C18_FindingsInvariant ==
  []FindingsConsistent /\ [][FindingsOnlyGrow]_vars

\* Two regions are flagged, one by each pass.
C18_Witness ==
  /\ ScanComplete
  /\ \E r, s \in found_regions :
       /\ reason_by_region[r] = "searchable"
       /\ reason_by_region[s] = "billable"
       /\ SomeHit(TypeQueriesIn(s))

\* No region is queried more than once broadly, nor more than once a
\* billable type.
QueriesBounded ==
  \A r \in Range(regions) :
    /\ Len(BroadQueriesIn(r)) <= 1
    /\ Len(QueriesIn(r)) <= 1 + Len(billable_types)

\* The three ways a run ends.
EndedBeforeScan ==
  /\ exit_code \notin {<<>>, <<0>>}
  /\ queries = <<>>
  /\ cleanup_calls = <<>>

EndedCleanupSkipped ==
  /\ exit_code = <<0>>
  /\ cleanup_calls = <<>>
  /\ ScanComplete
  /\ \A r \in Range(regions) : Len(BroadQueriesIn(r)) = 1

EndedAfterCleanup ==
  /\ exit_code # <<>>
  /\ Len(cleanup_calls) = 1
  /\ ScanComplete
  /\ \A r \in Range(regions) : Len(BroadQueriesIn(r)) = 1

ExactlyOneEnding ==
  /\ EndedBeforeScan \/ EndedCleanupSkipped \/ EndedAfterCleanup
  /\ ~(EndedBeforeScan /\ EndedCleanupSkipped)
  /\ ~(EndedBeforeScan /\ EndedAfterCleanup)
  /\ ~(EndedCleanupSkipped /\ EndedAfterCleanup)

\* C19: when every call returns, the run ends; no region has had more than
\* one broad query and 1 + |billable_types| queries in all; and a finished
\* run ended in exactly one way: a non-zero exit before any query, exit 0
\* with cleanup.py skipped, or after one cleanup.py call that followed the
\* scan of every region.
C19_Terminates ==
  /\ <>(pc = "done")
  /\ []QueriesBounded
  /\ [](pc = "done" => ExactlyOneEnding)

\* A finished run over two regions, one of which had a failed query and
\* every query the priority list allows, ended by one cleanup.py call.
C19_Witness ==
  /\ pc = "done"
  /\ EndedAfterCleanup
  /\ Len(regions) = 2
  /\ billable_types # <<>>
  /\ \E r \in Range(regions) :
       /\ Len(QueriesIn(r)) = 1 + Len(billable_types)
       /\ SomeFailed(QueriesIn(r))

====
